---- MODULE Spec2Model ----
(***************************************************************************)
(* Gemini Image Editor: the App component's state (src/App.tsx) and the    *)
(* edit request adapter editImageWithGemini (src/services/geminiService.ts)*)
(*                                                                         *)
(* Strings are sequences of tokens.  A token is a TLA+ string standing for *)
(* a comma-free piece of text ("data:", "image/png", ";base64", "A"); the  *)
(* comma itself is the token ",", so String.prototype.split(',') is a      *)
(* split of the sequence at every "," token.                               *)
(***************************************************************************)
EXTENDS Integers, Sequences, FiniteSets, TLC

VARIABLES
    originalImage,  \* useState<UploadedFile | null>
    editedImage,    \* useState<string | null>
    prompt,         \* useState<string>
    isLoading,      \* useState<boolean>
    error,          \* useState<string | null>
    selections,     \* every file handed to handleImageSelect, in order, with the state of its read
    edits,          \* the editImageWithGemini invocations handleSubmit is awaiting, in order of issue
    nSubmits,       \* how many edit requests handleSubmit has started
    ev,             \* which handler step ran last
    editedSource,   \* the UploadedFile the request that produced editedImage was issued with
    call            \* a direct invocation of editImageWithGemini and the promise it returned

vars == <<originalImage, editedImage, prompt, isLoading, error, selections,
          edits, nSubmits, ev, editedSource, call>>

appVars == <<originalImage, editedImage, prompt, isLoading, error, selections,
             edits, nSubmits, ev, editedSource>>

---------------------------------------------------------------------------
\* Bounds

MaxLen == 2
MaxParts == 2
MaxSelections == 2
MaxSubmits == 2

---------------------------------------------------------------------------
\* JavaScript values

Null == [t |-> "null"]
Undefined == [t |-> "undefined"]
Str(s) == [t |-> "string", v |-> s]
ErrorObj(m) == [t |-> "Error", message |-> m]
OtherThrown == [t |-> "object"]

Absent == [present |-> FALSE]
Some(x) == [present |-> TRUE, v |-> x]

SeqsUpTo(S, n) == UNION {[1..k -> S] : k \in 0..n}

RemoveAt(s, i) == SubSeq(s, 1, i - 1) \o SubSeq(s, i + 1, Len(s))

---------------------------------------------------------------------------
\* Files and Image Ingestion

Base64Chars == {"A", "B"}
MimeTypes == {<<"image/jpeg">>, <<"image/png">>}
FileNames == {"cat.jpg", "dog.png"}

\* A File: its name, its type and its content (as the base64 text FileReader encodes it to).
AllFiles == [name : FileNames, type : MimeTypes, content : SeqsUpTo(Base64Chars, MaxLen)]

FileA == [name |-> "cat.jpg", type |-> <<"image/jpeg">>, content |-> <<"A", "A">>]
FileB == [name |-> "dog.png", type |-> <<"image/png">>, content |-> <<"B">>]
AppFiles == {FileA, FileB}

ReadAsDataURL(file) == <<"data:">> \o file.type \o <<";base64", ",">> \o file.content

FileToUploadedFile(file) ==
    [base64 |-> ReadAsDataURL(file), mimeType |-> file.type, name |-> file.name]

EmptyStr == <<>>
Prompts == {EmptyStr, <<"make it red">>}

---------------------------------------------------------------------------
\* The edit request adapter, editImageWithGemini

RECURSIVE Split(_, _)
Split(s, sep) ==
    IF s = <<>> THEN << <<>> >>
    ELSE LET rest == Split(Tail(s), sep)
         IN  IF Head(s) = sep
             THEN << <<>> >> \o rest
             ELSE << <<Head(s)>> \o rest[1] >> \o Tail(rest)

\* arr[i], JavaScript's zero-based index: undefined past the end
ArrayAt(arr, i) == IF i + 1 <= Len(arr) THEN Str(arr[i + 1]) ELSE Undefined

\* mutant: the data URL is sent whole, its prefix not stripped
Base64DataWhole(image) == Str(image.base64)

Base64Data(image) == ArrayAt(Split(image.base64, ","), 1)

InlinePart(data, mimeType) ==
    [inlineData |-> Some([data |-> data, mimeType |-> mimeType]), text |-> Absent]
TextPart(text) == [inlineData |-> Absent, text |-> Some(text)]

BuildRequest(image, p) ==
    [model |-> "gemini-2.5-flash-image",
     parts |-> << InlinePart(Base64Data(image), image.mimeType), TextPart(p) >>,
     responseModalities |-> <<"IMAGE">>]

\* The synchronous part of an invocation, up to the await: one call of generateContent.
EditImageStart(image, p) ==
    [image |-> image, prompt |-> p, request |-> BuildRequest(image, p), calls |-> 1]

RECURSIVE PartsOfAll(_)
PartsOfAll(cs) ==
    IF cs = <<>> THEN <<>>
    ELSE (IF Head(cs).content.present /\ Head(cs).content.v.parts.present
          THEN Head(cs).content.v.parts.v ELSE <<>>) \o PartsOfAll(Tail(cs))

\* mutant: every candidate's parts are scanned, not the first candidate's only
ResponsePartsAnyCandidate(response) ==
    IF ~response.candidates.present THEN <<>> ELSE PartsOfAll(response.candidates.v)

\* response.candidates?.[0]?.content?.parts ?? []
ResponseParts(response) ==
    IF ~response.candidates.present THEN <<>>
    ELSE LET cs == response.candidates.v
         IN  IF Len(cs) = 0 THEN <<>>
             ELSE IF ~cs[1].content.present THEN <<>>
             ELSE IF ~cs[1].content.v.parts.present THEN <<>>
             ELSE cs[1].content.v.parts.v

DataUrl(mimeType, data) == <<"data:">> \o mimeType \o <<";base64", ",">> \o data

\* mutant: the last image part wins
RECURSIVE ScanPartsLast(_)
ScanPartsLast(parts) ==
    IF parts = <<>> THEN Absent
    ELSE LET rest == ScanPartsLast(Tail(parts))
         IN  IF rest.present THEN rest
             ELSE IF Head(parts).inlineData.present
                  THEN Some(DataUrl(Head(parts).inlineData.v.mimeType,
                                    Head(parts).inlineData.v.data))
                  ELSE Absent

RECURSIVE ScanParts(_)
ScanParts(parts) ==
    IF parts = <<>> THEN Absent
    ELSE IF Head(parts).inlineData.present
         THEN Some(DataUrl(Head(parts).inlineData.v.mimeType, Head(parts).inlineData.v.data))
         ELSE ScanParts(Tail(parts))

NoImageMsg == <<"No image was generated in the API response.">>
FailedPrefix == <<"Failed to generate image: ">>
UnknownErrorMsg == <<"An unknown error occurred while generating the image.">>

Resolve(v) == [kind |-> "resolve", value |-> v]
Reject(v) == [kind |-> "reject", value |-> v]

\* mutant: the caught value is passed on as it is
CatchBlockRethrow(e) == Reject(e)

CatchBlock(e) ==
    IF e.t = "Error"
    THEN Reject(Str(FailedPrefix \o e.message))
    ELSE Reject(Str(UnknownErrorMsg))

\* What the invocation does once generateContent has settled with env.
EditImageFinish(inv, env) ==
    [calls |-> inv.calls,
     settled |->
        IF env.kind = "response"
        THEN LET found == ScanParts(ResponseParts(env.response))
             IN  IF found.present
                 THEN Resolve(Str(found.v))
                 ELSE CatchBlock(ErrorObj(NoImageMsg))
        ELSE CatchBlock(env.thrown)]

---------------------------------------------------------------------------
\* What the remote service can do to a call

ImagePng == InlinePart(<<"B", "B">>, <<"image/png">>)
ImageJpeg == InlinePart(<<"C">>, <<"image/jpeg">>)
Commentary == TextPart(<<"Here is your image">>)
PartKinds == {Commentary, ImagePng, ImageJpeg}

Candidate(parts) == [content |-> Some([parts |-> Some(parts)])]
NoContentCandidate == [content |-> Absent]
NoPartsCandidate == [content |-> Some([parts |-> Absent])]

FirstCandidates ==
    {NoContentCandidate, NoPartsCandidate}
        \cup {Candidate(ps) : ps \in SeqsUpTo(PartKinds, MaxParts)}
LaterCandidates == {Candidate(<<ImageJpeg>>), Candidate(<<Commentary>>)}

Responses ==
    {[candidates |-> Absent], [candidates |-> Some(<<>>)]}
        \cup {[candidates |-> Some(<<c>>)] : c \in FirstCandidates}
        \cup {[candidates |-> Some(<<c, d>>)] : c \in FirstCandidates, d \in LaterCandidates}

ConnRefused == <<"connection refused">>
Throws == {[kind |-> "throw", thrown |-> ErrorObj(ConnRefused)],
           [kind |-> "throw", thrown |-> OtherThrown]}

Envs == Throws \cup {[kind |-> "response", response |-> r] : r \in Responses}

\* The App only sees whether the call resolved or rejected and with which string.
AppEnvs ==
    Throws \cup {[kind |-> "response", response |-> [candidates |-> Some(<<c>>)]] :
                    c \in {Candidate(<<>>), Candidate(<<ImagePng>>)}}

---------------------------------------------------------------------------
\* The App component

ValidationMsg == <<"Please upload an image and provide a prompt.">>
ReadFailMsg == <<"Failed to read the image file.">>

NoCall == [pc |-> "idle"]

InitApp ==
    /\ originalImage = Null
    /\ editedImage = Null
    /\ prompt = EmptyStr
    /\ isLoading = FALSE
    /\ error = Null
    /\ selections = <<>>
    /\ edits = <<>>
    /\ nSubmits = 0
    /\ ev = "init"
    /\ editedSource = Null

Init == InitApp /\ call = NoCall

\* handleImageSelect up to its await
HandleImageSelect(file) ==
    /\ Len(selections) < MaxSelections
    /\ isLoading' = TRUE
    /\ error' = Null
    /\ editedImage' = Null
    /\ editedSource' = Null
    /\ selections' = Append(selections, [file |-> file, status |-> "pending"])
    /\ ev' = "select"
    /\ UNCHANGED <<originalImage, prompt, edits, nSubmits, call>>

\* reader.onload: the promise resolves and handleImageSelect continues
ReadLoaded(i) ==
    /\ selections[i].status = "pending"
    /\ originalImage' = FileToUploadedFile(selections[i].file)
    /\ isLoading' = FALSE
    /\ selections' = [selections EXCEPT ![i].status = "ok"]
    /\ ev' = "readOk"
    /\ UNCHANGED <<editedImage, prompt, error, edits, nSubmits, editedSource, call>>

\* mutant: no finally block, the flag stays set after a failed read
ReadFailedKeepsLoading(i) ==
    /\ selections[i].status = "pending"
    /\ error' = Str(ReadFailMsg)
    /\ selections' = [selections EXCEPT ![i].status = "failed"]
    /\ ev' = "readFail"
    /\ UNCHANGED <<originalImage, editedImage, prompt, isLoading, edits, nSubmits,
                   editedSource, call>>

\* reader.onerror: the promise rejects and handleImageSelect continues in catch
ReadFailed(i) ==
    /\ selections[i].status = "pending"
    /\ error' = Str(ReadFailMsg)
    /\ isLoading' = FALSE
    /\ selections' = [selections EXCEPT ![i].status = "failed"]
    /\ ev' = "readFail"
    /\ UNCHANGED <<originalImage, editedImage, prompt, edits, nSubmits, editedSource, call>>

SetPrompt(v) ==
    /\ prompt' = v
    /\ ev' = "prompt"
    /\ UNCHANGED <<originalImage, editedImage, isLoading, error, selections, edits,
                   nSubmits, editedSource, call>>

\* mutant: only the image is validated, an empty prompt goes through
HandleSubmitImageOnly ==
    IF originalImage = Null
    THEN /\ error' = Str(ValidationMsg)
         /\ ev' = "invalid"
         /\ UNCHANGED <<originalImage, editedImage, prompt, isLoading, selections, edits,
                        nSubmits, editedSource, call>>
    ELSE /\ nSubmits < MaxSubmits
         /\ isLoading' = TRUE
         /\ error' = Null
         /\ editedImage' = Null
         /\ editedSource' = Null
         /\ edits' = Append(edits, EditImageStart(originalImage, prompt))
         /\ nSubmits' = nSubmits + 1
         /\ ev' = "submit"
         /\ UNCHANGED <<originalImage, prompt, selections, call>>

\* handleSubmit up to its await
HandleSubmit ==
    IF originalImage = Null \/ prompt = EmptyStr
    THEN /\ error' = Str(ValidationMsg)
         /\ ev' = "invalid"
         /\ UNCHANGED <<originalImage, editedImage, prompt, isLoading, selections, edits,
                        nSubmits, editedSource, call>>
    ELSE /\ nSubmits < MaxSubmits
         /\ isLoading' = TRUE
         /\ error' = Null
         /\ editedImage' = Null
         /\ editedSource' = Null
         /\ edits' = Append(edits, EditImageStart(originalImage, prompt))
         /\ nSubmits' = nSubmits + 1
         /\ ev' = "submit"
         /\ UNCHANGED <<originalImage, prompt, selections, call>>

\* the awaited editImageWithGemini settles and handleSubmit continues
SubmitSettled(i, env) ==
    LET inv == edits[i]
        out == EditImageFinish(inv, env).settled
    IN  /\ IF out.kind = "resolve"
           THEN /\ editedImage' = out.value
                /\ editedSource' = inv.image
                /\ ev' = "resolved"
                /\ UNCHANGED error
           ELSE /\ error' = out.value
                /\ ev' = "rejected"
                /\ UNCHANGED <<editedImage, editedSource>>
        /\ isLoading' = FALSE
        /\ edits' = RemoveAt(edits, i)
        /\ UNCHANGED <<originalImage, prompt, selections, nSubmits, call>>

Next ==
    \/ \E file \in AppFiles : HandleImageSelect(file)
    \/ \E i \in DOMAIN selections : ReadLoaded(i)
    \/ \E i \in DOMAIN selections : ReadFailed(i)
    \/ \E v \in Prompts : SetPrompt(v)
    \/ HandleSubmit
    \/ \E i \in DOMAIN edits, env \in AppEnvs : SubmitSettled(i, env)

Spec == Init /\ [][Next]_vars

FairSpec ==
    /\ Spec
    /\ WF_vars(\E i \in DOMAIN selections : ReadLoaded(i) \/ ReadFailed(i))
    /\ WF_vars(\E i \in DOMAIN edits, env \in AppEnvs : SubmitSettled(i, env))

---------------------------------------------------------------------------
\* The App driven through its rendered controls only

\* onChange of either file input (ImageUploader's, or the one beside Change Image);
\* neither is ever disabled.  A cancelled dialog carries no file and does nothing.
HandleFileChange(files) ==
    /\ Len(files) > 0
    /\ HandleImageSelect(files[1])

\* the textarea is rendered once an image is held, and disabled={isLoading}
TypePrompt(v) ==
    /\ originalImage # Null
    /\ ~isLoading
    /\ SetPrompt(v)

\* the Generate button is rendered once an image is held, and
\* disabled={isLoading || !prompt}
ClickGenerate ==
    /\ originalImage # Null
    /\ ~(isLoading \/ prompt = EmptyStr)
    /\ HandleSubmit

NextUI ==
    \/ \E files \in {<<>>} \cup {<<f>> : f \in AppFiles} : HandleFileChange(files)
    \/ \E i \in DOMAIN selections : ReadLoaded(i)
    \/ \E i \in DOMAIN selections : ReadFailed(i)
    \/ \E v \in Prompts : TypePrompt(v)
    \/ ClickGenerate
    \/ \E i \in DOMAIN edits, env \in AppEnvs : SubmitSettled(i, env)

SpecUI == Init /\ [][NextUI]_vars

---------------------------------------------------------------------------
\* editImageWithGemini called directly, against a mocked remote service

\* What fileToUploadedFile produces, and data handed over without its prefix.
ReadUploads == {FileToUploadedFile(f) : f \in AllFiles}
RawUploads ==
    {[base64 |-> f.content, mimeType |-> f.type, name |-> f.name] : f \in AllFiles}
UploadedFiles == ReadUploads \cup RawUploads

EditImageCall(image, p) ==
    /\ call.pc = "idle"
    /\ call' = [pc |-> "requesting", inv |-> EditImageStart(image, p)]
    /\ UNCHANGED appVars

EditImageSettle(env) ==
    /\ call.pc = "requesting"
    /\ call' = [pc |-> "settled", inv |-> call.inv, env |-> env,
                outcome |-> EditImageFinish(call.inv, env)]
    /\ UNCHANGED appVars

NextAdapter ==
    \/ \E image \in UploadedFiles, p \in Prompts : EditImageCall(image, p)
    \/ \E env \in Envs : EditImageSettle(env)

SpecAdapter == Init /\ [][NextAdapter]_vars

---------------------------------------------------------------------------
\* Properties of handleSubmit's validation

\* C1: a handleSubmit that runs while originalImage is null or the prompt is
\* empty starts no editImageWithGemini invocation (no remote call), sets the
\* validation message in that same step, and leaves isLoading as it was.
C1_ValidationBeforeCall ==
    [][(HandleSubmit /\ (originalImage = Null \/ prompt = EmptyStr))
        => /\ edits' = edits
           /\ nSubmits' = nSubmits
           /\ error' = Str(ValidationMsg)
           /\ isLoading' = isLoading]_vars

\* a validation failure that happened while a file read kept isLoading true
C1_Witness ==
    /\ ev = "invalid"
    /\ error = Str(ValidationMsg)
    /\ originalImage = Null
    /\ isLoading
    /\ edits = <<>>
    /\ nSubmits = 0

---------------------------------------------------------------------------
\* Properties of editImageWithGemini

Min(S) == CHOOSE x \in S : \A y \in S : x <= y

Contains(s, sub) ==
    \E i \in 0..(Len(s) - Len(sub)) : SubSeq(s, i + 1, i + Len(sub)) = sub

\* the parts of the first candidate, read off the response's shape
FirstCandidateParts(response) ==
    IF /\ response.candidates.present
       /\ Len(response.candidates.v) >= 1
       /\ response.candidates.v[1].content.present
       /\ response.candidates.v[1].content.v.parts.present
    THEN response.candidates.v[1].content.v.parts.v
    ELSE <<>>

ImageIndexes(parts) == {i \in DOMAIN parts : parts[i].inlineData.present}

Settled == call.pc = "settled"
SettledWithResponse == Settled /\ call.env.kind = "response"

\* C2: when the first candidate holds an image part, the promise resolves to
\* "data:<m>;base64,<d>" with m and d taken from the first image part in list
\* order, whatever the other parts and the input image's media type are.
C2_FirstImagePartWins ==
    SettledWithResponse =>
        LET parts == FirstCandidateParts(call.env.response)
            idx == ImageIndexes(parts)
        IN  idx # {} =>
                LET first == parts[Min(idx)].inlineData.v
                IN  call.outcome.settled =
                        [kind |-> "resolve",
                         value |-> Str(<<"data:">> \o first.mimeType
                                        \o <<";base64", ",">> \o first.data)]

\* a JPEG input, a response [text, PNG image]: the result is the PNG data URL
C2_Witness ==
    /\ SettledWithResponse
    /\ call.inv.image = FileToUploadedFile(FileA)
    /\ FirstCandidateParts(call.env.response) = <<Commentary, ImagePng>>
    /\ call.outcome.settled =
           Resolve(Str(<<"data:", "image/png", ";base64", ",", "B", "B">>))

\* C3: when the first candidate holds no image part (no candidates, no
\* content, no parts, or an image only in a later candidate), the promise
\* rejects with the "no image was generated" message.
C3_NoImageRejects ==
    SettledWithResponse =>
        (ImageIndexes(FirstCandidateParts(call.env.response)) = {} =>
            /\ call.outcome.settled.kind = "reject"
            /\ call.outcome.settled.value = Str(FailedPrefix \o NoImageMsg)
            /\ call.outcome.settled.value # Str(FailedPrefix \o ConnRefused)
            /\ call.outcome.settled.value # Str(UnknownErrorMsg))

\* only the second candidate holds an image, and the call was rejected
C3_Witness ==
    /\ SettledWithResponse
    /\ call.env.response.candidates.present
    /\ call.env.response.candidates.v =
           <<Candidate(<<Commentary>>), Candidate(<<ImageJpeg>>)>>
    /\ call.outcome.settled = Reject(Str(FailedPrefix \o NoImageMsg))

Failure ==
    \/ call.env.kind = "throw"
    \/ /\ call.env.kind = "response"
       /\ ImageIndexes(FirstCandidateParts(call.env.response)) = {}

\* C4: every failure of an invocation ends in a rejection with a plain string:
\* one containing the cause's message when the cause is an Error, the fixed
\* fallback otherwise; and nothing but a string is ever rejected with.
C4_RejectsWithString ==
    Settled =>
        /\ Failure => call.outcome.settled.kind = "reject"
        /\ call.outcome.settled.kind = "reject" =>
            /\ call.outcome.settled.value.t = "string"
            /\ (call.env.kind = "throw" /\ call.env.thrown.t = "Error")
                   => Contains(call.outcome.settled.value.v, call.env.thrown.message)
            /\ call.env.kind = "response"
                   => Contains(call.outcome.settled.value.v, NoImageMsg)
            /\ (call.env.kind = "throw" /\ call.env.thrown.t # "Error")
                   => call.outcome.settled.value = Str(UnknownErrorMsg)

\* a refused connection, rejected with a string naming it
C4_Witness ==
    /\ Settled
    /\ call.env.kind = "throw"
    /\ call.env.thrown = ErrorObj(ConnRefused)
    /\ call.outcome.settled.kind = "reject"
    /\ call.outcome.settled.value.t = "string"
    /\ Contains(call.outcome.settled.value.v, ConnRefused)

CommaIndexes(s) == {i \in DOMAIN s : s[i] = ","}

\* the data after its media-type prefix, which ends at the first comma
StripPrefix(s) == SubSeq(s, Min(CommaIndexes(s)) + 1, Len(s))

\* C7: an invocation calls the remote service at most once, failed or not, and
\* for data of the form "<prefix>,<content>" the call carries exactly the
\* stripped content tagged with the UploadedFile's mimeType, then the
\* instruction text unchanged, and asks for image output only.
C7_OneCallTwoParts ==
    call.pc # "idle" =>
        /\ call.inv.calls <= 1
        /\ Settled => call.outcome.calls <= 1
        /\ CommaIndexes(call.inv.image.base64) # {} =>
            /\ call.inv.request.parts =
                   << [inlineData |-> Some([data |-> Str(StripPrefix(call.inv.image.base64)),
                                            mimeType |-> call.inv.image.mimeType]),
                       text |-> Absent],
                      [inlineData |-> Absent, text |-> Some(call.inv.prompt)] >>
            /\ call.inv.request.responseModalities = <<"IMAGE">>

\* the call for cat.jpg failed, after one request carrying "AA" as image/jpeg
C7_Witness ==
    /\ Settled
    /\ call.env.kind = "throw"
    /\ call.inv.image = FileToUploadedFile(FileA)
    /\ call.inv.prompt = <<"make it red">>
    /\ call.outcome.calls = 1
    /\ call.inv.request.parts =
           << InlinePart(Str(<<"A", "A">>), <<"image/jpeg">>), TextPart(<<"make it red">>) >>

---------------------------------------------------------------------------
\* Properties of the App's state

\* C5: under UI-driven events, whenever an edit request is outstanding the
\* Generate button is disabled (isLoading is true), so at most one edit request
\* is in flight.
C5_SubmitDisabledWhileOutstanding ==
    /\ Len(edits) > 0 => isLoading
    /\ Len(edits) <= 1

FailureStep == ev \in {"readFail", "invalid", "rejected"}

C8_ImageXorError ==
    /\ ~(editedImage # Null /\ error # Null)
    /\ ev = "submit" => (editedImage = Null /\ error = Null)

AllReadsOk == \A i \in DOMAIN selections : selections[i].status = "ok"

\* C9: once the reads of two or more selections have all completed
\* successfully, originalImage is the file selected last; and a failed read
\* leaves originalImage as it was.
C9_LatestSelectionHeld ==
    [][/\ (Len(selections') >= 2 /\ AllReadsOk')
            => originalImage' = FileToUploadedFile(selections'[Len(selections')].file)
       /\ ev' = "readFail" => originalImage' = originalImage]_vars

\* C10: a displayed edit result was produced from the UploadedFile currently
\* held in originalImage.
C10_ResultBelongsToOriginal ==
    editedImage # Null => editedSource = originalImage

====
